---- MODULE Spec2Model ----
(***************************************************************************)
(* The in-memory REST service of taskflow-api/src/main.py: two insertion-  *)
(* ordered dictionaries (tasks_db, user_stories_db), the handlers that     *)
(* read and write them, and the response each handler produces.            *)
(*                                                                         *)
(* A Python dict is modelled as a sequence of <<key, value>> entries in    *)
(* insertion order.  A request body that is a JSON object of arbitrary     *)
(* keys (update_task) is modelled as the sequence of its items().          *)
(*                                                                         *)
(* The streaming RPCs of Day-1/demos/grpc-demo/server.py are modelled      *)
(* beside it: the servicer's mock_tasks dictionary and, for each RPC, the  *)
(* position of the handler in its loop, its local variables and the        *)
(* messages exchanged.  Each RPC has its own specification.                *)
(***************************************************************************)
EXTENDS Integers, Sequences, FiniteSets, TLC

VARIABLES tasks_db,         \* main.py:71  the task dictionary
          user_stories_db,  \* main.py:90  the user-story dictionary
          clock,            \* the wall clock read by datetime.now()
          updates,          \* number of PUT requests that changed a record
          deletes,          \* number of DELETE requests that removed a record
          request,          \* the request served last: the handler, its path
                            \* parameter and the body, where the handler reads it
          response,         \* the response it produced: [status, body]
          mock_tasks,       \* server.py:12  the servicer's mock dictionary
          batch,            \* the BatchUpdateTasks calls: position and locals
          stream,           \* the StreamTaskUpdates call
          collab            \* the CollaborateOnTask call

rest_vars == <<tasks_db, user_stories_db, clock, updates, deletes, request, response>>

grpc_vars == <<mock_tasks, batch, stream, collab>>

vars == <<rest_vars, grpc_vars>>

----------------------------------------------------------------------------
(* Bounds of the model *)

\* creations (POST /tasks and POST /user-stories together) explored
MaxClock == 3
\* PUT requests that change a record explored
MaxUpdates == 1
\* DELETE requests that remove a record explored
MaxDeletes == 2
\* requests a client streams into one BatchUpdateTasks call
MaxBatchItems == 2
\* messages a client streams into the CollaborateOnTask call
MaxMessages == 3

----------------------------------------------------------------------------
(* Values *)

\* JSON null / Python None
None == "<None>"

\* version: str = "1.0.0"
VERSION == "1.0.0"

Digit(d) == CASE d = 0 -> "0" [] d = 1 -> "1" [] d = 2 -> "2" [] d = 3 -> "3"
              [] d = 4 -> "4" [] d = 5 -> "5" [] d = 6 -> "6" [] d = 7 -> "7"
              [] d = 8 -> "8" [] d = 9 -> "9"

RECURSIVE Decimal(_)
\* str(n) for n >= 0
Decimal(n) == IF n < 10 THEN Digit(n) ELSE Decimal(n \div 10) \o Digit(n % 10)

RECURSIVE ZeroPad(_, _, _)
ZeroPad(s, have, width) == IF have >= width THEN s ELSE ZeroPad("0" \o s, have + 1, width)

RECURSIVE NumDigits(_)
NumDigits(n) == IF n < 10 THEN 1 ELSE 1 + NumDigits(n \div 10)

\* the format specification {n:03d}: decimal, zero-padded to at least 3 digits
Format03d(n) == ZeroPad(Decimal(n), NumDigits(n), 3)

\* datetime.now().isoformat(): a non-empty string that grows with the clock
isoformat(t) == "2025-01-01T00:00:0" \o Decimal(t)

----------------------------------------------------------------------------
(* Python dict as an insertion-ordered sequence of entries *)

Keys(db) == {db[i].key : i \in 1..Len(db)}

\* db[k], for k in db
Lookup(db, k) == db[CHOOSE i \in 1..Len(db) : db[i].key = k].val

\* list(db.values())
Values(db) == [i \in 1..Len(db) |-> db[i].val]

\* db[k] = v: an existing key keeps its position, a new key goes last
DictSet(db, k, v) ==
    IF k \in Keys(db)
    THEN [i \in 1..Len(db) |-> IF db[i].key = k THEN [key |-> k, val |-> v] ELSE db[i]]
    ELSE Append(db, [key |-> k, val |-> v])

\* mutant: db.popitem(), which removes the newest entry whatever the key
DictDel_PopItem(db, k) == SubSeq(db, 1, Len(db) - 1)

\* del db[k]
DictDel(db, k) == SelectSeq(db, LAMBDA e : e.key # k)

----------------------------------------------------------------------------
(* Responses *)

\* ApiResponse(success=True, data=..., message=..., timestamp=now), serialised
ApiResponse(data, message, t) ==
    [success |-> TRUE, data |-> data, message |-> message,
     timestamp |-> isoformat(t), version |-> VERSION]

\* mutant: the error is built like an ApiResponse, with a data field of None
ErrorDetail_WithData(error, message, t) ==
    [success |-> FALSE, data |-> None, error |-> error, message |-> message,
     timestamp |-> isoformat(t), version |-> VERSION]

\* the detail dictionary every handler passes to HTTPException
ErrorDetail(error, message, t) ==
    [success |-> FALSE, error |-> error, message |-> message,
     timestamp |-> isoformat(t), version |-> VERSION]

\* raise HTTPException(status_code, detail): the application registers no
\* exception handler, so the framework's default one answers with the JSON
\* object {"detail": detail}
HTTPException(status_code, detail) ==
    [status |-> status_code, body |-> [detail |-> detail]]

\* class Task: every field but user_story is a required string
ValidTask(rec) ==
    \A f \in {"id", "title", "description", "status", "created_at"} : rec[f] # None

\* a returned value that passes its response_model is sent with the route's
\* status code; one that fails it is answered 500 with a plain-text body
Respond(status_code, valid, content) ==
    IF valid THEN [status |-> status_code, body |-> content]
    ELSE [status |-> 500, body |-> [plain |-> "Internal Server Error"]]

----------------------------------------------------------------------------
(* Initial contents of the stores *)

InitialTasks ==
    << [key |-> "task_001",
        val |-> [id |-> "task_001", title |-> "Learn FastAPI",
                 description |-> "Build your first API with FastAPI",
                 status |-> "in_progress", created_at |-> "2024-01-15T10:00:00Z",
                 user_story |-> "As a developer, I want to learn FastAPI"]],
       [key |-> "task_002",
        val |-> [id |-> "task_002", title |-> "Understand REST",
                 description |-> "Learn REST principles and HTTP methods",
                 status |-> "completed", created_at |-> "2024-01-14T09:00:00Z",
                 user_story |-> "As a developer, I want to understand REST principles"]] >>

InitialStories ==
    << [key |-> "story_001",
        val |-> [id |-> "story_001", as_a |-> "project manager",
                 i_want |-> "to see all tasks for my team",
                 so_that |-> "I can track progress and identify blockers",
                 acceptance_criteria |-> <<"Can view all tasks in a project",
                                           "Can filter by status",
                                           "Can see task assignments">>,
                 priority |-> "high"]],
       [key |-> "story_002",
        val |-> [id |-> "story_002", as_a |-> "developer",
                 i_want |-> "to update task status",
                 so_that |-> "I can keep the team informed of my progress",
                 acceptance_criteria |-> <<"Can change status to in_progress",
                                           "Can mark tasks as completed",
                                           "Can add comments to tasks">>,
                 priority |-> "medium"]] >>

----------------------------------------------------------------------------
(* Inputs explored *)

\* path parameters: every task ID the store can hold, and one it never holds
TaskPathIds == {"task_" \o Format03d(n) : n \in 1..(MaxClock + 2)} \cup {"task_999"}

\* an initial story, the first one a POST creates, and one never present
StoryPathIds == {"story_001", "story_003", "story_999"}

\* CreateTaskRequest bodies: title and description strings, user_story optional
CreateTaskRequests ==
    { [title |-> "X", description |-> "Y", user_story |-> None],
      [title |-> "Write docs", description |-> "Document the API",
       user_story |-> "As a user, I want docs"] }

\* update_task bodies (task_update: dict), as their items()
TaskUpdates ==
    { <<>>,
      << <<"title", "Renamed">>, <<"priority", "high">> >>,
      << <<"id", "task_001">>, <<"status", "completed">> >>,
      << <<"title", None>> >> }

\* UserStory bodies: the client must send an id; priority defaults to "medium"
UserStoryRequests ==
    { [id |-> i, as_a |-> "tester", i_want |-> "to run the suite",
       so_that |-> "regressions are caught",
       acceptance_criteria |-> <<"Suite runs in CI">>, priority |-> p]
      : i \in {"story_001", "mine"}, p \in {"medium"} }

----------------------------------------------------------------------------
(* State of the gRPC servicer and of its calls *)

\* self.mock_tasks of TaskAnalyticsServicer.__init__
InitialMockTasks ==
    << [key |-> "task_001",
        val |-> [title |-> "Implement API", status |-> "in_progress",
                 assigned_to |-> "alice"]],
       [key |-> "task_002",
        val |-> [title |-> "Write tests", status |-> "completed", assigned_to |-> "bob"]],
       [key |-> "task_003",
        val |-> [title |-> "Code review", status |-> "pending",
                 assigned_to |-> "charlie"]],
       [key |-> "task_004",
        val |-> [title |-> "Deploy to staging", status |-> "overdue",
                 assigned_to |-> "diana"]] >>

\* the BatchUpdateTasks calls in flight together (the server runs each call
\* on a thread of its pool)
Calls == {1, 2}

\* TaskUpdateRequest messages a client streams: known and unknown task IDs
BatchItems ==
    { [task_id |-> "task_001", new_status |-> "completed", user_id |-> "demo_user"],
      [task_id |-> "task_001", new_status |-> "pending", user_id |-> "demo_user"],
      [task_id |-> "task_999", new_status |-> "completed", user_id |-> "demo_user"] }

\* a call that has not reached the handler: no request, no locals set
NoRequest == [task_id |-> "", new_status |-> "", user_id |-> ""]

\* a BatchUpdateTasks call before the handler runs
IdleBatchCall ==
    [pc |-> "idle", received |-> <<>>, failed |-> <<>>, request |-> NoRequest,
     successful_updates |-> 0, failed_updates |-> 0, error_messages |-> <<>>,
     returned |-> <<>>]

\* a TaskUpdate not yet built (timestamp=int(time.time()), a wall-clock
\* reading, is left out of TaskUpdate and TaskCollaboration)
NoUpdate == [task_id |-> "", status |-> "", assigned_to |-> ""]

\* the StreamTaskUpdates call before the handler runs: active is what
\* context.is_active() returns, sent the task_id of every update yielded,
\* update the last one yielded, broke whether the loop was left by break
IdleStreamCall ==
    [pc |-> "idle", i |-> 0, active |-> TRUE, sent |-> <<>>, update |-> NoUpdate,
     broke |-> FALSE]

\* TaskCollaboration messages a client streams
CollabMessages ==
    { [task_id |-> "task_001", user_id |-> "alice", action |-> "comment",
       data |-> "Great work on the API!"],
      [task_id |-> "task_002", user_id |-> "bob", action |-> "status_change",
       data |-> "Moving to testing phase"] }

\* a TaskCollaboration not yet received
NoMessage == [task_id |-> "", user_id |-> "", action |-> "", data |-> ""]

\* the CollaborateOnTask call before the handler runs: written is every
\* message the client has written, closed whether it has ended its stream,
\* inbox the messages not yet taken from request_iterator, received those
\* taken, sent the responses yielded
IdleCollabCall ==
    [pc |-> "idle", written |-> <<>>, closed |-> FALSE, inbox |-> <<>>,
     received |-> <<>>, request |-> NoMessage, sent |-> <<>>]

----------------------------------------------------------------------------
(* Task handlers *)

Init ==
    /\ mock_tasks = InitialMockTasks
    /\ batch = [c \in Calls |-> IdleBatchCall]
    /\ stream = IdleStreamCall
    /\ collab = IdleCollabCall
    /\ tasks_db = InitialTasks
    /\ user_stories_db = InitialStories
    /\ clock = 0
    /\ updates = 0
    /\ deletes = 0
    /\ request = [op |-> "start"]
    /\ response = [status |-> 0, body |-> [plain |-> ""]]

\* mutant: the 404 carries the generic code of the demonstration endpoint
TaskNotFound_GenericCode(task_id, t) ==
    HTTPException(404, ErrorDetail("NOT_FOUND",
                                   "Task with ID " \o task_id \o " not found", t))

\* the JSON a 404 of the task handlers carries
TaskNotFound(task_id, t) ==
    HTTPException(404, ErrorDetail("TASK_NOT_FOUND",
                                   "Task with ID " \o task_id \o " not found", t))

\* GET /tasks
get_tasks_response(db, t) ==
    Respond(200, \A i \in 1..Len(db) : ValidTask(db[i].val),
            ApiResponse(Values(db), "Tasks retrieved successfully", t))

get_tasks ==
    /\ request' = [op |-> "get_tasks"]
    /\ response' = get_tasks_response(tasks_db, clock)
    /\ UNCHANGED <<tasks_db, user_stories_db, clock, updates, deletes>>

\* GET /tasks/{task_id}
get_task_response(db, task_id, t) ==
    IF task_id \notin Keys(db)
    THEN TaskNotFound(task_id, t)
    ELSE Respond(200, ValidTask(Lookup(db, task_id)),
                 ApiResponse(Lookup(db, task_id), "Task retrieved successfully", t))

get_task ==
    \E task_id \in TaskPathIds :
        /\ request' = [op |-> "get_task", task_id |-> task_id]
        /\ response' = get_task_response(tasks_db, task_id, clock)
        /\ UNCHANGED <<tasks_db, user_stories_db, clock, updates, deletes>>

\* mutant: the ID is derived from len(tasks_db), not len(tasks_db) + 1
NewTaskId_OffByOne(db) == "task_" \o Format03d(Len(db))

\* task_id = f"task_{len(tasks_db) + 1:03d}"
NewTaskId(db) == "task_" \o Format03d(Len(db) + 1)

\* mutant: the user_story of the request is not copied into the task
NewTask_DropsUserStory(task_id, task_request, t) ==
    [id |-> task_id, title |-> task_request.title,
     description |-> task_request.description, status |-> "pending",
     created_at |-> isoformat(t), user_story |-> None]

\* Task(id=..., title=..., description=..., status="pending", created_at=now,
\*      user_story=...).dict()
NewTask(task_id, task_request, t) ==
    [id |-> task_id, title |-> task_request.title,
     description |-> task_request.description, status |-> "pending",
     created_at |-> isoformat(t), user_story |-> task_request.user_story]

\* POST /tasks
create_task ==
    \E task_request \in CreateTaskRequests :
        LET task_id == NewTaskId(tasks_db)
            new_task == NewTask(task_id, task_request, clock + 1)
        IN  /\ clock < MaxClock
            /\ clock' = clock + 1
            /\ tasks_db' = DictSet(tasks_db, task_id, new_task)
            /\ request' = [op |-> "create_task", body |-> task_request]
            /\ response' = Respond(201, TRUE,
                               ApiResponse(new_task, "Task created successfully", clock + 1))
            /\ UNCHANGED <<user_stories_db, updates, deletes>>

RECURSIVE ApplyUpdate_AddsUnknownKeys(_, _)
\* mutant: tasks_db[task_id].update(task_update), which also adds unknown keys
ApplyUpdate_AddsUnknownKeys(rec, items) ==
    IF items = <<>> THEN rec
    ELSE LET key == Head(items)[1]
             value == Head(items)[2]
         IN  ApplyUpdate_AddsUnknownKeys(
                 [k \in DOMAIN rec \cup {key} |-> IF k = key THEN value ELSE rec[k]],
                 Tail(items))

RECURSIVE ApplyUpdate(_, _)
\* for key, value in task_update.items():
\*     if key in tasks_db[task_id]: tasks_db[task_id][key] = value
ApplyUpdate(rec, items) ==
    IF items = <<>> THEN rec
    ELSE LET key == Head(items)[1]
             value == Head(items)[2]
         IN  ApplyUpdate(IF key \in DOMAIN rec THEN [rec EXCEPT ![key] = value] ELSE rec,
                         Tail(items))

\* PUT /tasks/{task_id}
update_task ==
    \E task_id \in TaskPathIds, task_update \in TaskUpdates :
        /\ IF task_id \notin Keys(tasks_db)
           THEN /\ request' = [op |-> "update_task", task_id |-> task_id]
                /\ response' = TaskNotFound(task_id, clock)
                /\ UNCHANGED <<tasks_db, updates>>
           ELSE LET updated == ApplyUpdate(Lookup(tasks_db, task_id), task_update)
                    changed == IF updated = Lookup(tasks_db, task_id) THEN 0 ELSE 1
                IN  /\ updates + changed <= MaxUpdates
                    /\ request' = [op |-> "update_task", task_id |-> task_id,
                                   body |-> task_update]
                    /\ updates' = updates + changed
                    /\ tasks_db' = DictSet(tasks_db, task_id, updated)
                    /\ response' = Respond(200, ValidTask(updated),
                                       ApiResponse(updated, "Task updated successfully", clock))
        /\ UNCHANGED <<user_stories_db, clock, deletes>>

\* DELETE /tasks/{task_id}
delete_task ==
    \E task_id \in TaskPathIds :
        /\ request' = [op |-> "delete_task", task_id |-> task_id]
        /\ IF task_id \notin Keys(tasks_db)
           THEN /\ response' = TaskNotFound(task_id, clock)
                /\ UNCHANGED <<tasks_db, deletes>>
           ELSE /\ deletes < MaxDeletes
                /\ deletes' = deletes + 1
                /\ tasks_db' = DictDel(tasks_db, task_id)
                /\ response' = Respond(200, TRUE,
                                   ApiResponse([message |-> "Task deleted successfully"],
                                               "Task deleted successfully", clock))
        /\ UNCHANGED <<user_stories_db, clock, updates>>

----------------------------------------------------------------------------
(* User-story handlers *)

\* GET /user-stories
get_user_stories ==
    /\ request' = [op |-> "get_user_stories"]
    /\ response' = Respond(200, TRUE,
                       ApiResponse(Values(user_stories_db),
                                   "User stories retrieved successfully", clock))
    /\ UNCHANGED <<tasks_db, user_stories_db, clock, updates, deletes>>

\* GET /user-stories/{story_id}
get_user_story_response(db, story_id, t) ==
    IF story_id \notin Keys(db)
    THEN HTTPException(404, ErrorDetail("STORY_NOT_FOUND",
                           "User story with ID " \o story_id \o " not found", t))
    ELSE Respond(200, TRUE,
                 ApiResponse(Lookup(db, story_id), "User story retrieved successfully", t))

get_user_story ==
    \E story_id \in StoryPathIds :
        /\ request' = [op |-> "get_user_story", story_id |-> story_id]
        /\ response' = get_user_story_response(user_stories_db, story_id, clock)
        /\ UNCHANGED <<tasks_db, user_stories_db, clock, updates, deletes>>

\* story_id = f"story_{len(user_stories_db) + 1:03d}"
NewStoryId(db) == "story_" \o Format03d(Len(db) + 1)

\* mutant: the id the client sent is stored
NewStory_KeepsClientId(story_id, story) == story

\* story.id = story_id; story.dict()
NewStory(story_id, story) == [story EXCEPT !.id = story_id]

\* POST /user-stories
create_user_story ==
    \E story \in UserStoryRequests :
        LET story_id == NewStoryId(user_stories_db)
            stored == NewStory(story_id, story)
        IN  /\ clock < MaxClock
            /\ clock' = clock + 1
            /\ user_stories_db' = DictSet(user_stories_db, story_id, stored)
            /\ request' = [op |-> "create_user_story", body |-> story]
            /\ response' = Respond(201, TRUE,
                               ApiResponse(stored, "User story created successfully",
                                           clock + 1))
            /\ UNCHANGED <<tasks_db, updates, deletes>>

----------------------------------------------------------------------------
(* Informational and demonstration handlers *)

\* GET /
root ==
    /\ request' = [op |-> "root"]
    /\ response' = Respond(200, TRUE,
                       ApiResponse([message |-> "Welcome to Day 1 API Learning!",
                                    version |-> VERSION,
                                    endpoints |-> [health |-> "/health", tasks |-> "/tasks",
                                                   user_stories |-> "/user-stories",
                                                   docs |-> "/docs"]],
                                   "API is running successfully", clock))
    /\ UNCHANGED <<tasks_db, user_stories_db, clock, updates, deletes>>

\* GET /health
health_check ==
    /\ request' = [op |-> "health_check"]
    /\ response' = Respond(200, TRUE,
                       ApiResponse([status |-> "healthy", timestamp |-> isoformat(clock),
                                    version |-> VERSION],
                                   "Service is healthy", clock))
    /\ UNCHANGED <<tasks_db, user_stories_db, clock, updates, deletes>>

\* GET /response-patterns/envelope
demonstrate_envelope_pattern ==
    /\ request' = [op |-> "demonstrate_envelope_pattern"]
    /\ response' = Respond(200, TRUE,
                       ApiResponse([example |-> "This is wrapped in an envelope",
                                    benefits |-> <<"Consistent response structure",
                                                   "Metadata included (timestamp, version)",
                                                   "Clear success/failure indication",
                                                   "Extensible for future needs">>],
                                   "Envelope pattern demonstration", clock))
    /\ UNCHANGED <<tasks_db, user_stories_db, clock, updates, deletes>>

\* GET /response-patterns/direct: no response_model, the dict is the body
demonstrate_direct_response ==
    /\ request' = [op |-> "demonstrate_direct_response"]
    /\ response' = Respond(200, TRUE,
                       [example |-> "This is a direct response",
                        drawbacks |-> <<"No consistent structure", "No metadata",
                                        "Harder to handle errors uniformly",
                                        "Less extensible">>])
    /\ UNCHANGED <<tasks_db, user_stories_db, clock, updates, deletes>>

\* mutant: the 400 demonstration raises with the status of the 404 one
demonstrate_400_WrongStatus ==
    /\ request' = [op |-> "demonstrate_400"]
    /\ response' = HTTPException(404, ErrorDetail("BAD_REQUEST",
                                     "Bad request - invalid parameters", clock))
    /\ UNCHANGED <<tasks_db, user_stories_db, clock, updates, deletes>>

\* GET /error/400
demonstrate_400 ==
    /\ request' = [op |-> "demonstrate_400"]
    /\ response' = HTTPException(400, ErrorDetail("BAD_REQUEST",
                                     "Bad request - invalid parameters", clock))
    /\ UNCHANGED <<tasks_db, user_stories_db, clock, updates, deletes>>

\* GET /error/404
demonstrate_404 ==
    /\ request' = [op |-> "demonstrate_404"]
    /\ response' = HTTPException(404, ErrorDetail("NOT_FOUND", "Resource not found", clock))
    /\ UNCHANGED <<tasks_db, user_stories_db, clock, updates, deletes>>

\* GET /error/500
demonstrate_500 ==
    /\ request' = [op |-> "demonstrate_500"]
    /\ response' = HTTPException(500, ErrorDetail("INTERNAL_ERROR",
                                     "Internal server error", clock))
    /\ UNCHANGED <<tasks_db, user_stories_db, clock, updates, deletes>>

----------------------------------------------------------------------------
(* The service *)

\* the REST service: any request, one at a time
Next ==
    \/ root /\ UNCHANGED grpc_vars
    \/ health_check /\ UNCHANGED grpc_vars
    \/ get_tasks /\ UNCHANGED grpc_vars
    \/ get_task /\ UNCHANGED grpc_vars
    \/ create_task /\ UNCHANGED grpc_vars
    \/ update_task /\ UNCHANGED grpc_vars
    \/ delete_task /\ UNCHANGED grpc_vars
    \/ get_user_stories /\ UNCHANGED grpc_vars
    \/ get_user_story /\ UNCHANGED grpc_vars
    \/ create_user_story /\ UNCHANGED grpc_vars
    \/ demonstrate_envelope_pattern /\ UNCHANGED grpc_vars
    \/ demonstrate_direct_response /\ UNCHANGED grpc_vars
    \/ demonstrate_400 /\ UNCHANGED grpc_vars
    \/ demonstrate_404 /\ UNCHANGED grpc_vars
    \/ demonstrate_500 /\ UNCHANGED grpc_vars

Spec == Init /\ [][Next]_vars

----------------------------------------------------------------------------
(* BatchUpdateTasks (client streaming) *)

\* successful_updates = 0; failed_updates = 0; error_messages = []
BatchLocals(call) ==
    [call EXCEPT !.pc = "for", !.successful_updates = 0, !.failed_updates = 0,
                 !.error_messages = <<>>]

\* the handler is entered on a thread of the pool
BatchUpdateTasks(c) ==
    /\ batch[c].pc = "idle"
    /\ batch' = [batch EXCEPT ![c] = BatchLocals(batch[c])]
    /\ UNCHANGED <<mock_tasks, stream, collab, rest_vars>>

\* for request in request_iterator: the client's next message arrives
BatchNextRequest(c) ==
    \E item \in BatchItems :
        /\ batch[c].pc = "for"
        /\ Len(batch[c].received) < MaxBatchItems
        /\ batch' = [batch EXCEPT ![c] =
                         [batch[c] EXCEPT !.pc = "random", !.request = item,
                                          !.received = Append(batch[c].received, item)]]
        /\ UNCHANGED <<mock_tasks, stream, collab, rest_vars>>

\* mutant: a failure is counted but its message is not recorded
CountFailure_NoMessage(call) ==
    [call EXCEPT !.failed_updates = call.failed_updates + 1]

\* failed_updates += 1; error_messages.append(f"Failed to update {task_id}")
CountFailure(call) ==
    [call EXCEPT !.failed_updates = call.failed_updates + 1,
                 !.error_messages = Append(call.error_messages,
                                           "Failed to update " \o call.request.task_id)]

\* successful_updates += 1
CountSuccess(call) == [call EXCEPT !.successful_updates = call.successful_updates + 1]

\* if random.random() < 0.2: ... else: ...   (either outcome can be drawn)
BatchRandom(c) ==
    \E fails \in BOOLEAN :
        /\ batch[c].pc = "random"
        /\ batch' = [batch EXCEPT ![c] =
                         [(IF fails THEN CountFailure(batch[c]) ELSE CountSuccess(batch[c]))
                             EXCEPT !.pc = IF fails THEN "for" ELSE "in",
                                    !.failed = Append(batch[c].failed, fails)]]
        /\ UNCHANGED <<mock_tasks, stream, collab, rest_vars>>

\* if request.task_id in self.mock_tasks:
BatchIn(c) ==
    /\ batch[c].pc = "in"
    /\ batch' = [batch EXCEPT ![c].pc =
                     IF batch[c].request.task_id \in Keys(mock_tasks) THEN "set" ELSE "for"]
    /\ UNCHANGED <<mock_tasks, stream, collab, rest_vars>>

\* mutant: the whole entry is replaced by one holding only the status
SetStatus_ReplacesEntry(db, task_id, new_status) ==
    DictSet(db, task_id, [title |-> "", status |-> new_status, assigned_to |-> ""])

\* self.mock_tasks[task_id]["status"] = new_status
SetStatus(db, task_id, new_status) ==
    DictSet(db, task_id, [Lookup(db, task_id) EXCEPT !.status = new_status])

\* self.mock_tasks[request.task_id]["status"] = request.new_status
BatchSet(c) ==
    /\ batch[c].pc = "set"
    /\ mock_tasks' = SetStatus(mock_tasks, batch[c].request.task_id,
                               batch[c].request.new_status)
    /\ batch' = [batch EXCEPT ![c].pc = "for"]
    /\ UNCHANGED <<stream, collab, rest_vars>>

\* BatchResponse(successful_updates=..., failed_updates=..., error_messages=...)
BatchResponse(call) ==
    [successful_updates |-> call.successful_updates,
     failed_updates |-> call.failed_updates,
     error_messages |-> call.error_messages]

\* the request stream has ended: the loop is left and the response returned
BatchReturn(c) ==
    /\ batch[c].pc = "for"
    /\ batch' = [batch EXCEPT ![c] =
                     [batch[c] EXCEPT !.pc = "done",
                                      !.returned = <<BatchResponse(batch[c])>>]]
    /\ UNCHANGED <<mock_tasks, stream, collab, rest_vars>>

\* concurrent BatchUpdateTasks calls, interleaved statement by statement
NextBatch ==
    \/ \E c \in Calls : BatchUpdateTasks(c)
    \/ \E c \in Calls : BatchNextRequest(c)
    \/ \E c \in Calls : BatchRandom(c)
    \/ \E c \in Calls : BatchIn(c)
    \/ \E c \in Calls : BatchSet(c)
    \/ \E c \in Calls : BatchReturn(c)

SpecBatch == Init /\ [][NextBatch]_vars

----------------------------------------------------------------------------
(* StreamTaskUpdates (server streaming) *)

\* for i in range(5)
StreamCount == 5

\* the handler is entered: the loop starts at i = 0
StreamTaskUpdates ==
    /\ stream.pc = "idle"
    /\ stream' = [stream EXCEPT !.pc = "if", !.i = 0]
    /\ UNCHANGED <<mock_tasks, batch, collab, rest_vars>>

\* the client cancels or the call ends: context.is_active() turns False
StreamCancel ==
    /\ stream.pc \notin {"idle", "done"}
    /\ stream.active
    /\ stream' = [stream EXCEPT !.active = FALSE]
    /\ UNCHANGED <<mock_tasks, batch, collab, rest_vars>>

\* if context.is_active(): ... else: break
StreamIsActive ==
    /\ stream.pc = "if"
    /\ stream' = IF stream.active
                  THEN [stream EXCEPT !.pc = "yield"]
                  ELSE [stream EXCEPT !.pc = "done", !.broke = TRUE]
    /\ UNCHANGED <<mock_tasks, batch, collab, rest_vars>>

\* mutant: the ID is formatted from i, not i + 1
StreamTaskId_FromZero(i) == "task_" \o Format03d(i)

\* task_id = f"task_{i+1:03d}"
StreamTaskId(i) == "task_" \o Format03d(i + 1)

\* TaskUpdate(task_id=..., status=random.choice(...), assigned_to=random.choice(...))
\* is yielded
StreamYield ==
    \E status \in {"pending", "in_progress", "completed"},
       assigned_to \in {"alice", "bob", "charlie", "diana"} :
        /\ stream.pc = "yield"
        /\ stream' = [stream EXCEPT
                          !.pc = "sleep",
                          !.update = [task_id |-> StreamTaskId(stream.i), status |-> status,
                                      assigned_to |-> assigned_to],
                          !.sent = Append(stream.sent, StreamTaskId(stream.i))]
        /\ UNCHANGED <<mock_tasks, batch, collab, rest_vars>>

\* time.sleep(2), then the next i of range(5), or the end of the loop
StreamSleep ==
    /\ stream.pc = "sleep"
    /\ stream' = [stream EXCEPT !.i = stream.i + 1,
                                !.pc = IF stream.i + 1 < StreamCount THEN "if" ELSE "done"]
    /\ UNCHANGED <<mock_tasks, batch, collab, rest_vars>>

\* a step of the handler
StreamStep == StreamIsActive \/ StreamYield \/ StreamSleep

NextStream ==
    \/ StreamTaskUpdates
    \/ StreamCancel
    \/ StreamIsActive
    \/ StreamYield
    \/ StreamSleep

\* the handler's thread keeps running while the call is active
SpecStream ==
    Init /\ [][NextStream]_vars /\ WF_vars(StreamStep /\ stream.active)

----------------------------------------------------------------------------
(* CollaborateOnTask (bidirectional streaming) *)

\* the handler is entered
CollaborateOnTask ==
    /\ collab.pc = "idle"
    /\ collab' = [collab EXCEPT !.pc = "for"]
    /\ UNCHANGED <<mock_tasks, batch, stream, rest_vars>>

\* the client writes a message to its request stream
CollabClientWrite ==
    \E message \in CollabMessages :
        /\ collab.pc # "idle"
        /\ ~ collab.closed
        /\ Len(collab.written) < MaxMessages
        /\ collab' = [collab EXCEPT !.written = Append(collab.written, message),
                                    !.inbox = Append(collab.inbox, message)]
        /\ UNCHANGED <<mock_tasks, batch, stream, rest_vars>>

\* the client ends its request stream
CollabClientClose ==
    /\ collab.pc # "idle"
    /\ ~ collab.closed
    /\ collab' = [collab EXCEPT !.closed = TRUE]
    /\ UNCHANGED <<mock_tasks, batch, stream, rest_vars>>

\* for request in request_iterator: the next message is taken
CollabNextRequest ==
    /\ collab.pc = "for"
    /\ collab.inbox # <<>>
    /\ collab' = [collab EXCEPT !.pc = "yield",
                                !.request = Head(collab.inbox),
                                !.inbox = Tail(collab.inbox),
                                !.received = Append(collab.received, Head(collab.inbox))]
    /\ UNCHANGED <<mock_tasks, batch, stream, rest_vars>>

\* mutant: the message is echoed back under the sender's user_id and data
CollabResponse_Echo(message) ==
    [task_id |-> message.task_id, user_id |-> message.user_id, action |-> "acknowledge",
     data |-> message.data]

\* TaskCollaboration(task_id=request.task_id, user_id="server",
\*                   action="acknowledge", data=f"Received: {request.data}")
CollabResponse(message) ==
    [task_id |-> message.task_id, user_id |-> "server", action |-> "acknowledge",
     data |-> "Received: " \o message.data]

\* yield response
CollabYield ==
    /\ collab.pc = "yield"
    /\ collab' = [collab EXCEPT !.pc = "for",
                                !.sent = Append(collab.sent, CollabResponse(collab.request))]
    /\ UNCHANGED <<mock_tasks, batch, stream, rest_vars>>

\* the request stream has ended: the loop is left and the response stream ends
CollabReturn ==
    /\ collab.pc = "for"
    /\ collab.inbox = <<>>
    /\ collab.closed
    /\ collab' = [collab EXCEPT !.pc = "done"]
    /\ UNCHANGED <<mock_tasks, batch, stream, rest_vars>>

NextCollab ==
    \/ CollaborateOnTask
    \/ CollabClientWrite
    \/ CollabClientClose
    \/ CollabNextRequest
    \/ CollabYield
    \/ CollabReturn

\* a step of the handler
CollabStep == CollabNextRequest \/ CollabYield \/ CollabReturn

\* the handler's thread keeps running
SpecCollab == Init /\ [][NextCollab]_vars /\ WF_vars(CollabStep)

----------------------------------------------------------------------------
(* Vocabulary of the properties *)

\* the step just taken served a request of handler op
Served(op) == request'.op = op

\* the error structure a response carries (the detail of its HTTPException)
ErrorOf(resp) == resp.body.detail

\* resp is a 404 whose error structure has success=false and the given code
IsNotFound(resp, code) ==
    /\ resp.status = 404
    /\ ErrorOf(resp).success = FALSE
    /\ ErrorOf(resp).error = code

\* every record of db other than the one under key k is the same in db2
OthersUnchanged(db, db2, k) ==
    \A o \in Keys(db) \ {k} : o \in Keys(db2) /\ Lookup(db2, o) = Lookup(db, o)

\* n in decimal, zero-padded to three digits
ThreeDigits(n) ==
    IF n < 10 THEN "00" \o ToString(n)
    ELSE IF n < 100 THEN "0" \o ToString(n) ELSE ToString(n)

\* the keys of items (a request body given as its items())
ItemKeys(items) == {items[i][1] : i \in 1..Len(items)}

\* the value items gives key k
ItemValue(items, k) == items[CHOOSE i \in 1..Len(items) : items[i][1] = k][2]

----------------------------------------------------------------------------
(* C1 *)

\* C1: whenever GET, PUT or DELETE /tasks/{id} is served for an ID that is
\* not a key of the store, the response is HTTP 404 whose error structure has
\* success=false and error="TASK_NOT_FOUND", and the store is left as it was.
C1_AbsentIdIsNotFound ==
    [][ \A op \in {"get_task", "update_task", "delete_task"} :
            (Served(op) /\ request'.task_id \notin Keys(tasks_db))
                => /\ IsNotFound(response', "TASK_NOT_FOUND")
                   /\ tasks_db' = tasks_db ]_vars

\* a PUT was answered 404 for task_001, an ID the store held until a DELETE
C1_Witness ==
    /\ request.op = "update_task"
    /\ request.task_id = "task_001"
    /\ response.status = 404
    /\ "task_001" \notin Keys(tasks_db)
    /\ Len(tasks_db) > 0

----------------------------------------------------------------------------
(* C2 *)

\* C2: in every reachable state, a GET of a present ID that is answered 200
\* carries data.id equal to the requested ID, and no two stored tasks have the
\* same id.
C2_IdUniqueAndImmutable ==
    /\ \A task_id \in Keys(tasks_db) :
           LET r == get_task_response(tasks_db, task_id, clock)
           IN  r.status = 200 => (r.body.success /\ r.body.data.id = task_id)
    /\ \A i, j \in 1..Len(tasks_db) :
           i # j => tasks_db[i].val.id # tasks_db[j].val.id

----------------------------------------------------------------------------
(* C3 *)

\* C3: every POST /tasks adds exactly one record: the store grows by one and
\* every record it held before is still present with unchanged field values.
C3_CreateNeverCollides ==
    [][ Served("create_task")
            => /\ Len(tasks_db') = Len(tasks_db) + 1
               /\ \A k \in Keys(tasks_db) :
                      k \in Keys(tasks_db') /\ Lookup(tasks_db', k) = Lookup(tasks_db, k) ]_vars

----------------------------------------------------------------------------
(* C4 *)

\* C4: right after a POST /tasks, a GET of the ID the POST returned is
\* answered 200 with success=true and the title, description and user_story
\* that were submitted.
C4_CreateThenGet ==
    request.op = "create_task"
        => LET new_id == response.body.data.id
               g == get_task_response(tasks_db, new_id, clock)
           IN  /\ g.status = 200
               /\ g.body.success
               /\ g.body.data.title = request.body.title
               /\ g.body.data.description = request.body.description
               /\ g.body.data.user_story = request.body.user_story

\* a POST with a user_story was served in a store that had lost a task, so
\* the returned ID is one the store already held
C4_Witness ==
    /\ request.op = "create_task"
    /\ request.body.user_story # None
    /\ response.body.data.id = "task_002"
    /\ deletes > 0

----------------------------------------------------------------------------
(* C5 *)

\* C5: a PUT /tasks/{id} on a present ID gives each field of the record the
\* supplied value if its key is in the payload and leaves it otherwise; the
\* record's field names do not change (unknown payload keys are ignored); the
\* keys of the store and every other task are unchanged.
C5_PartialUpdate ==
    [][ (Served("update_task") /\ request'.task_id \in Keys(tasks_db))
            => LET task_id == request'.task_id
                   body == request'.body
                   old == Lookup(tasks_db, task_id)
                   new == Lookup(tasks_db', task_id)
               IN  /\ [i \in 1..Len(tasks_db') |-> tasks_db'[i].key]
                          = [i \in 1..Len(tasks_db) |-> tasks_db[i].key]
                   /\ DOMAIN new = DOMAIN old
                   /\ \A f \in DOMAIN old :
                          new[f] = IF f \in ItemKeys(body) THEN ItemValue(body, f) ELSE old[f]
                   /\ OthersUnchanged(tasks_db, tasks_db', task_id) ]_vars

\* a PUT carrying a known and an unknown key was answered 200: the title
\* changed, the status did not, and the store holds other tasks
C5_Witness ==
    /\ request.op = "update_task"
    /\ response.status = 200
    /\ ItemKeys(request.body) = {"title", "priority"}
    /\ Lookup(tasks_db, request.task_id).title = "Renamed"
    /\ Lookup(tasks_db, request.task_id).status = "pending"
    /\ Len(tasks_db) >= 3

----------------------------------------------------------------------------
(* C6 *)

\* C6: a DELETE /tasks/{id} on a present ID is answered 200 with
\* success=true, removes exactly that record and leaves all others unchanged,
\* and a GET of the ID right after is a 404 TASK_NOT_FOUND.
C6_DeleteThenGet ==
    [][ (Served("delete_task") /\ request'.task_id \in Keys(tasks_db))
            => LET task_id == request'.task_id
               IN  /\ response'.status = 200
                   /\ response'.body.success
                   /\ Keys(tasks_db') = Keys(tasks_db) \ {task_id}
                   /\ Len(tasks_db') = Len(tasks_db) - 1
                   /\ OthersUnchanged(tasks_db, tasks_db', task_id)
                   /\ IsNotFound(get_task_response(tasks_db', task_id, clock'),
                                 "TASK_NOT_FOUND") ]_vars

\* a DELETE of a task that was not the newest was answered 200 and other
\* tasks remain
C6_Witness ==
    /\ request.op = "delete_task"
    /\ response.status = 200
    /\ request.task_id = "task_002"
    /\ Len(tasks_db) >= 2
    /\ "task_003" \in Keys(tasks_db)

----------------------------------------------------------------------------
(* C7 *)

\* body has non-empty timestamp and version fields at its top level
HasEnvelopeFields(body) ==
    /\ {"timestamp", "version"} \subseteq DOMAIN body
    /\ body.timestamp # ""
    /\ body.version # ""

\* C7: the body of every response is the envelope itself, with non-empty
\* timestamp and version at its top level, for every endpoint but
\* /response-patterns/direct, whose body is not wrapped.
C7_EveryBodyIsTheEnvelope ==
    /\ request.op \notin {"start", "demonstrate_direct_response"}
           => HasEnvelopeFields(response.body)
    /\ request.op = "demonstrate_direct_response"
           => ~ HasEnvelopeFields(response.body)

----------------------------------------------------------------------------
(* C8 *)

\* C8: a POST /tasks served in a store of n tasks is answered 201 with
\* success=true and a task whose id is "task_" followed by n+1 zero-padded
\* to three digits, whose status is "pending" and whose title and
\* description are the submitted ones; in the initial store the id is
\* "task_003".
C8_CreateResponse ==
    [][ Served("create_task")
            => /\ response'.status = 201
               /\ response'.body.success
               /\ response'.body.data.id = "task_" \o ThreeDigits(Len(tasks_db) + 1)
               /\ response'.body.data.status = "pending"
               /\ response'.body.data.title = request'.body.title
               /\ response'.body.data.description = request'.body.description
               /\ (tasks_db = InitialTasks => response'.body.data.id = "task_003") ]_vars

\* the first POST after start was answered with task_003, now in the store
C8_Witness ==
    /\ request.op = "create_task"
    /\ clock = 1
    /\ deletes = 0
    /\ response.status = 201
    /\ response.body.data.id = "task_003"
    /\ "task_003" \in Keys(tasks_db)

----------------------------------------------------------------------------
(* C9 *)

\* rec was created by a POST (its created_at is a reading of the clock)
CreatedByPost(rec) == \E t \in 1..MaxClock : rec.created_at = isoformat(t)

\* the clock reading at which the POST created rec
PostTime(rec) == CHOOSE t \in 1..MaxClock : rec.created_at = isoformat(t)

\* C9: a GET /tasks that is answered 200 lists every record of the store
\* exactly once, and a task created by a later POST never comes before a task
\* created by an earlier POST.
C9_ListInInsertionOrder ==
    LET r == get_tasks_response(tasks_db, clock)
        data == r.body.data
    IN  r.status = 200
            => /\ Len(data) = Cardinality(Keys(tasks_db))
               /\ \A k \in Keys(tasks_db) :
                      Cardinality({i \in 1..Len(data) : data[i] = Lookup(tasks_db, k)}) >= 1
               /\ \A i, j \in 1..Len(data) :
                      (i < j /\ CreatedByPost(data[i]) /\ CreatedByPost(data[j]))
                          => PostTime(data[i]) < PostTime(data[j])

----------------------------------------------------------------------------
(* C10 *)

\* C10: no step removes or changes a stored user story; a POST /user-stories
\* is answered 201 and stores the story, with its id replaced by "story_" +
\* (n+1 in three digits), under that ID, which no story had before; a GET
\* /user-stories/{id} of an absent ID is a 404 STORY_NOT_FOUND.
C10_StoriesOnlyGrow ==
    [][ /\ \A k \in Keys(user_stories_db) :
               /\ k \in Keys(user_stories_db')
               /\ Lookup(user_stories_db', k) = Lookup(user_stories_db, k)
        /\ Served("create_user_story")
               => LET story_id == "story_" \o ThreeDigits(Len(user_stories_db) + 1)
                  IN  /\ response'.status = 201
                      /\ story_id \notin Keys(user_stories_db)
                      /\ Keys(user_stories_db') = Keys(user_stories_db) \cup {story_id}
                      /\ Len(user_stories_db') = Len(user_stories_db) + 1
                      /\ Lookup(user_stories_db', story_id)
                             = [request'.body EXCEPT !.id = story_id]
                      /\ response'.body.data = Lookup(user_stories_db', story_id)
        /\ (Served("get_user_story") /\ request'.story_id \notin Keys(user_stories_db))
               => IsNotFound(response', "STORY_NOT_FOUND") ]_vars

\* a POST whose body carried the id of an existing story was stored as
\* story_003
C10_Witness ==
    /\ request.op = "create_user_story"
    /\ request.body.id = "story_001"
    /\ response.status = 201
    /\ response.body.data.id = "story_003"
    /\ Lookup(user_stories_db, "story_003").as_a = "tester"
    /\ Lookup(user_stories_db, "story_001").as_a = "project manager"

----------------------------------------------------------------------------
(* C11 *)

\* resp reports success: its body has success=true
Successful(resp) == "success" \in DOMAIN resp.body /\ resp.body.success = TRUE

\* the step just taken served a request for an ID its store does not hold
ServedAbsentId ==
    \/ /\ request'.op \in {"get_task", "update_task", "delete_task"}
       /\ request'.task_id \notin Keys(tasks_db)
    \/ /\ request'.op = "get_user_story"
       /\ request'.story_id \notin Keys(user_stories_db)

\* the error-demonstration endpoints with their fixed status and error code
ErrorDemonstrations ==
    { [op |-> "demonstrate_400", status |-> 400, error |-> "BAD_REQUEST"],
      [op |-> "demonstrate_404", status |-> 404, error |-> "NOT_FOUND"],
      [op |-> "demonstrate_500", status |-> 500, error |-> "INTERNAL_ERROR"] }

\* C11: a read, update or delete that reports success has status 200 (the
\* unwrapped demonstration read included), a creation has status 201 and
\* reports success, a request for an absent ID has status 404, and GET
\* /error/400, /error/404 and /error/500 answer their fixed status and error
\* code in every reachable state and change neither store.
C11_StatusSelection ==
    [][ /\ \A op \in {"root", "health_check", "get_tasks", "get_task", "update_task",
                      "delete_task", "get_user_stories", "get_user_story",
                      "demonstrate_envelope_pattern"} :
               (Served(op) /\ Successful(response')) => response'.status = 200
        /\ Served("demonstrate_direct_response") => response'.status = 200
        /\ \A op \in {"create_task", "create_user_story"} :
               Served(op) => (response'.status = 201 /\ Successful(response'))
        /\ ServedAbsentId => response'.status = 404
        /\ \A d \in ErrorDemonstrations :
               Served(d.op) => /\ response'.status = d.status
                               /\ ErrorOf(response').success = FALSE
                               /\ ErrorOf(response').error = d.error
                               /\ tasks_db' = tasks_db
                               /\ user_stories_db' = user_stories_db ]_vars

\* GET /error/400 was answered 400 BAD_REQUEST in a state where both stores
\* differ from their initial contents
C11_Witness ==
    /\ request.op = "demonstrate_400"
    /\ response.status = 400
    /\ ErrorOf(response).error = "BAD_REQUEST"
    /\ Len(tasks_db) = 1
    /\ Len(user_stories_db) = 3

----------------------------------------------------------------------------
(* C12 *)

\* the envelope or error structure a response carries
EnvelopeOf(resp) == IF "detail" \in DOMAIN resp.body THEN ErrorOf(resp) ELSE resp.body

\* C12: for every response of a wrapped endpoint, an envelope with
\* success=true has a data field and no error code, and one with
\* success=false has no data field and has non-empty error, message,
\* timestamp and version.
C12_EnvelopeInvariant ==
    request.op \notin {"start", "demonstrate_direct_response"}
        => LET e == EnvelopeOf(response)
           IN  "success" \in DOMAIN e
                   => IF e.success
                      THEN "data" \in DOMAIN e /\ "error" \notin DOMAIN e
                      ELSE /\ "data" \notin DOMAIN e
                           /\ {"error", "message", "timestamp", "version"} \subseteq DOMAIN e
                           /\ \A f \in {"error", "message", "timestamp", "version"} :
                                  e[f] \notin {"", None}

\* a GET of an absent user story was answered with a success=false structure
\* after a creation had been answered with a success=true one
C12_Witness ==
    /\ request.op = "get_user_story"
    /\ response.status = 404
    /\ EnvelopeOf(response).success = FALSE
    /\ EnvelopeOf(response).error = "STORY_NOT_FOUND"
    /\ clock > 0

----------------------------------------------------------------------------
(* Claims about the gRPC servicer *)

\* the error messages a call owes: one for each item drawn as failed, in
\* stream order
RECURSIVE FailureMessages(_, _)
FailureMessages(received, failed) ==
    IF received = <<>> \/ failed = <<>> THEN <<>>
    ELSE (IF Head(failed)
          THEN <<"Failed to update " \o Head(received).task_id>>
          ELSE <<>>) \o FailureMessages(Tail(received), Tail(failed))

\* how many of the flags are v
RECURSIVE Count(_, _)
Count(flags, v) ==
    IF flags = <<>> THEN 0
    ELSE (IF Head(flags) = v THEN 1 ELSE 0) + Count(Tail(flags), v)

\* C13: the response of every finished BatchUpdateTasks call, whatever the
\* other calls did meanwhile, counts each of the k items of its request
\* stream exactly once: successful_updates + failed_updates = k, the counts
\* are those of the items drawn successful and failed, and error_messages
\* holds one message per failed item, naming its task_id, in stream order.
C13_BatchAccounting ==
    \A c \in Calls :
        batch[c].pc = "done"
            => LET r == batch[c].returned[1]
                   k == Len(batch[c].received)
               IN  /\ Len(batch[c].failed) = k
                   /\ r.successful_updates + r.failed_updates = k
                   /\ r.failed_updates = Count(batch[c].failed, TRUE)
                   /\ r.successful_updates = Count(batch[c].failed, FALSE)
                   /\ Len(r.error_messages) = r.failed_updates
                   /\ r.error_messages = FailureMessages(batch[c].received, batch[c].failed)

\* a call returned after one failed and one successful item while another
\* call was between its items
C13_Witness ==
    \E c, d \in Calls :
        /\ c # d
        /\ batch[c].pc = "done"
        /\ batch[c].failed = <<TRUE, FALSE>>
        /\ batch[c].returned[1].error_messages # <<>>
        /\ batch[d].pc \notin {"idle", "done"}
        /\ batch[d].received # <<>>

\* the statuses written by items counted as successful for task_id
SuccessfulStatuses(task_id) ==
    UNION { { batch[c].received[i].new_status :
                i \in { j \in 1..Len(batch[c].failed) :
                           /\ ~ batch[c].failed[j]
                           /\ batch[c].received[j].task_id = task_id } } : c \in Calls }

\* every status is the initial one or one written by a successful item
StatusesFromSuccesses ==
    \A id \in Keys(mock_tasks) :
        Lookup(mock_tasks, id).status
            \in {Lookup(InitialMockTasks, id).status} \cup SuccessfulStatuses(id)

\* a step keeps the keys, titles and assignees, and writes a status only as
\* the assignment of a call whose current item was counted successful
OnlySuccessfulStatusWrites ==
    /\ Keys(mock_tasks') = Keys(mock_tasks)
    /\ \A id \in Keys(mock_tasks) :
           /\ Lookup(mock_tasks', id).title = Lookup(mock_tasks, id).title
           /\ Lookup(mock_tasks', id).assigned_to = Lookup(mock_tasks, id).assigned_to
           /\ DOMAIN Lookup(mock_tasks', id) = DOMAIN Lookup(mock_tasks, id)
    /\ mock_tasks' # mock_tasks
           => \E c \in Calls :
                  /\ batch[c].pc = "set"
                  /\ batch'[c].pc # "set"
                  /\ ~ batch[c].failed[Len(batch[c].failed)]
                  /\ \A id \in Keys(mock_tasks) :
                         Lookup(mock_tasks', id).status # Lookup(mock_tasks, id).status
                             => /\ id = batch[c].request.task_id
                                /\ Lookup(mock_tasks', id).status = batch[c].request.new_status

\* C14: under every interleaving of concurrent BatchUpdateTasks calls the
\* task IDs of mock_tasks never change, only the status of a task is
\* written, only by an item counted as successful, and every status is the
\* task's initial one or the new_status of such an item.
C14_OnlyStatusOfKnownTasks ==
    [](Keys(mock_tasks) = Keys(InitialMockTasks) /\ StatusesFromSuccesses)
        /\ [][OnlySuccessfulStatusWrites]_vars

\* two calls wrote task_001 one after the other, an item for the unknown
\* task_999 was counted successful and an item was drawn as failed
C14_Witness ==
    \E c, d \in Calls :
        /\ c # d
        /\ Lookup(mock_tasks, "task_001").status = "pending"
        /\ batch[c].pc = "done"
        /\ batch[c].failed = <<FALSE, FALSE>>
        /\ batch[c].received[1].task_id = "task_999"
        /\ batch[c].received[2].new_status = "completed"
        /\ batch[d].failed = <<TRUE, FALSE>>
        /\ batch[d].received[2].new_status = "pending"
        /\ "task_999" \notin Keys(mock_tasks)

\* the task IDs of the updates sent are task_001, task_002, ... without gaps
StreamIdsInOrder ==
    /\ Len(stream.sent) <= 5
    /\ \A k \in 1..Len(stream.sent) : stream.sent[k] = "task_" \o ThreeDigits(k)
    /\ stream.update.task_id = IF stream.sent = <<>> THEN ""
                                ELSE stream.sent[Len(stream.sent)]

\* the handler ends by break only, and without break only after five updates
StreamEnds ==
    /\ stream.broke => stream.pc = "done" /\ ~ stream.active
    /\ stream.pc = "done" /\ ~ stream.broke => Len(stream.sent) = 5

\* C15: StreamTaskUpdates sends at most five updates, with task IDs
\* task_001, task_002, ... in order without gaps; a call that stays active
\* ends, and ends after exactly five; once is_active() was found False no
\* further update is sent and the handler has ended; mock_tasks is never
\* written.
C15_StreamOfFive ==
    /\ [](StreamIdsInOrder /\ StreamEnds)
    /\ [][(stream.broke => stream'.sent = stream.sent) /\ mock_tasks' = mock_tasks]_vars
    /\ (stream.pc # "idle") ~> (stream.pc = "done" \/ ~ stream.active)

\* the call was found inactive after three updates and ended there
C15_Witness ==
    /\ stream.pc = "done"
    /\ stream.broke
    /\ stream.sent = <<"task_001", "task_002", "task_003">>

\* the i-th response acknowledges the i-th message received
CollabAcknowledged ==
    /\ Len(collab.sent) <= Len(collab.received)
    /\ Len(collab.received) <= Len(collab.sent) + 1
    /\ collab.pc # "yield" => Len(collab.sent) = Len(collab.received)
    /\ \A i \in 1..Len(collab.sent) :
           /\ collab.sent[i].user_id = "server"
           /\ collab.sent[i].action = "acknowledge"
           /\ collab.sent[i].task_id = collab.received[i].task_id
           /\ collab.sent[i].data = "Received: " \o collab.received[i].data

\* messages are received in the order written, and the handler ends only
\* after the client ended its stream and every message was answered
CollabInOrder ==
    /\ collab.received \o collab.inbox = collab.written
    /\ collab.pc = "done" => collab.closed /\ Len(collab.sent) = Len(collab.written)

\* C16: CollaborateOnTask answers every message received with exactly one
\* acknowledgement, in order of receipt: the i-th response has user_id
\* "server", action "acknowledge", the i-th request's task_id and data
\* "Received: " followed by its data; no response precedes its request, and
\* the response stream ends once the request stream has ended.
C16_OneAcknowledgementEach ==
    /\ [](CollabAcknowledged /\ CollabInOrder)
    /\ [][Len(collab'.sent) <= Len(collab.sent) + 1]_vars
    /\ collab.closed ~> (collab.pc = "done")

\* three messages for two tasks were acknowledged and the stream ended
C16_Witness ==
    /\ collab.pc = "done"
    /\ Len(collab.sent) = 3
    /\ collab.sent[1].task_id # collab.sent[2].task_id
    /\ collab.sent[3].data = "Received: Great work on the API!"

====
